---- MODULE Spec2Model ----
(***************************************************************************)
(* Model of src/main_app.py: a Streamlit script that decodes an uploaded   *)
(* image, extracts its text with EasyOCR and sends the text to a Groq      *)
(* chat-completion endpoint.  One script run is one pass of the page from  *)
(* top to bottom; widget values, st.session_state and the st.cache_resource*)
(* cache survive between runs, script variables do not.                    *)
(*                                                                         *)
(* Strings are sequences of one-character strings, so that " ".join and    *)
(* Python truthiness are computed and not assumed.  Optional values        *)
(* (client, reader) are sequences of length 0 or 1.                        *)
(***************************************************************************)
EXTENDS Integers, Sequences, FiniteSets, TLC

\* ---------------------------------------------------------------- bounds
MaxBytes == 2
MaxFrags == 2
MaxChoices == 2
MaxInvocations == 2

\* ---------------------------------------------------------------- values
None == <<"<None>">>
Unset == <<"<unset>">>
Absent == <<"<absent>">>
NotShown == <<"<not shown>">>
Placeholder == <<"Los resultados del analisis de la IA apareceran aqui">>
NoTextReply == <<"No se pudo extraer texto de la imagen para analizar.">>
NoFile == <<"<no file>">>

W_NOKEY == "warning: introduce tu API Key de Groq"
E_OCR == "error: Error al procesar la imagen con OCR"
E_NOTEXT == "error: No se pudo extraer texto de la imagen"
E_GROQ == "error: Error al contactar la API de Groq"

NoFault == "none"
UnidentifiedImageError == "decode: UnidentifiedImageError"
ImageLoadError == "decode: OSError"
ReaderInitError == "ocr_load: Reader() raised"

ModelId == "llama-3.3-70b-versatile"
Languages == <<"es", "en">>

\* ---------------------------------------------------------------- inputs
\* A chunk of an uploaded file is either valid where it stands or corrupt.
ByteVals == {"ok", "bad"}
ImageBytes == UNION {[1..n -> ByteVals] : n \in 0..MaxBytes}
ApiKeys == {<<>>, <<"g">>, <<"x">>}
ValidKeys == {<<"g">>}

FragVals == {<<>>, <<"a">>}
Detections == {<<"bbox", f, "conf">> : f \in FragVals}
EngineResults == UNION {[1..n -> Detections] : n \in 0..MaxFrags}

ContentVals == {<<>>, <<"r">>, <<"s">>}
ChoiceLists == UNION {[1..n -> ContentVals] : n \in 0..MaxChoices}
NoReply == [status |-> "none", choices |-> <<>>]
Replies == {[status |-> "ok", choices |-> c] : c \in ChoiceLists}
Faults(key) == IF key \in ValidKeys
               THEN {[status |-> s, choices |-> <<>>] : s \in {"NetworkFailure", "UpstreamFailure"}}
               ELSE {[status |-> "AuthFailure", choices |-> <<>>]}
EndpointOutcomes(key) == IF key \in ValidKeys THEN Replies \cup Faults(key) ELSE Faults(key)

\* ---------------------------------------------------------------- pure parts
WellFormedImage(b) == Len(b) >= 1 /\ \A i \in 1..Len(b) : b[i] = "ok"

\* Image.open reads the header only; st.image loads the whole file.
ImageOpen(b) == IF Len(b) >= 1 /\ b[1] = "ok" THEN NoFault ELSE UnidentifiedImageError
StImage(b) == IF \A i \in 1..Len(b) : b[i] = "ok" THEN NoFault ELSE ImageLoadError
DecodeFault(b) == IF ImageOpen(b) # NoFault THEN ImageOpen(b) ELSE StImage(b)

RECURSIVE JoinSpace(_)
JoinSpace(frs) == IF Len(frs) = 0 THEN <<>>
                  ELSE IF Len(frs) = 1 THEN frs[1]
                  ELSE frs[1] \o <<" ">> \o JoinSpace(Tail(frs))

TextoExtraido(resultado) == JoinSpace([i \in 1..Len(resultado) |-> resultado[i][2]])

Truthy_NotNone(v) == v # None
Truthy(v) == v # None /\ v # <<>>

Prompt(texto) == <<"Eres un asistente experto ... Texto extraido de la imagen: ---", texto, "--- Analisis y respuesta:">>
Request(texto) == [role |-> "user", content |-> Prompt(texto), model |-> ModelId]
NoRequest == [role |-> "none", content |-> Prompt(Unset), model |-> ModelId]

FirstChoice_Last(choices) == choices[Len(choices)]
FirstChoice(choices) == choices[1]

ReaderInstance == [langs |-> Languages, gpu |-> FALSE]
Groq(key) == [api_key |-> key]

CacheHit_Never(c) == FALSE
CacheHit(c) == c # <<>>

AfterDecode_Swallow(fault, click) == IF click THEN "key" ELSE "results"
AfterDecode(fault, click) == IF fault # NoFault THEN "end"
                             ELSE IF click THEN "key" ELSE "results"

AfterCompletion_Retry(failed) == IF failed THEN "infer" ELSE "store"
AfterCompletion(failed) == "store"

StoreRespuesta_IfAny(ss, r) == IF Truthy(r) THEN [ss EXCEPT !.respuesta_ia = r] ELSE ss
StoreRespuesta(ss, r) == [ss EXCEPT !.respuesta_ia = r]

\* ---------------------------------------------------------------- state
VARIABLES pc, uploaded_file, groq_api_key, clicked, buttonShown,
          session_state, cache, ctorCalls, ctorFails, loads, invocations,
          client, reader, image_bytes, texto_ocr, respuesta_ia,
          messages, unhandled, shownTexto, shownRespuesta,
          ocrCalls, inferCalls, lastRequest, reply

widgets == <<uploaded_file, groq_api_key>>
process == <<cache, ctorCalls, ctorFails, loads>>
locals == <<client, reader, image_bytes, texto_ocr, respuesta_ia>>
page == <<messages, unhandled, shownTexto, shownRespuesta>>
doubles == <<ocrCalls, inferCalls, lastRequest, reply>>
vars == <<pc, widgets, clicked, buttonShown, session_state, process, invocations,
          locals, page, doubles>>

Init ==
    /\ pc = "upload"
    /\ uploaded_file = NoFile
    /\ groq_api_key = <<>>
    /\ clicked = FALSE
    /\ buttonShown = FALSE
    /\ session_state = [texto_ocr |-> Absent, respuesta_ia |-> Absent]
    /\ cache = <<>>
    /\ ctorCalls = 0
    /\ ctorFails = 0
    /\ loads = 0
    /\ invocations = 0
    /\ client = <<>>
    /\ reader = <<>>
    /\ image_bytes = Unset
    /\ texto_ocr = Unset
    /\ respuesta_ia = Unset
    /\ messages = <<>>
    /\ unhandled = NoFault
    /\ shownTexto = NotShown
    /\ shownRespuesta = NotShown
    /\ ocrCalls = 0
    /\ inferCalls = 0
    /\ lastRequest = NoRequest
    /\ reply = NoReply

\* A widget event starts a new script run: the script's variables, the page
\* and the per-run call counts start afresh.
StartRun ==
    /\ pc = "idle"
    /\ pc' = "upload"
    /\ client' = <<>>
    /\ reader' = <<>>
    /\ image_bytes' = Unset
    /\ texto_ocr' = Unset
    /\ respuesta_ia' = Unset
    /\ messages' = <<>>
    /\ unhandled' = NoFault
    /\ shownTexto' = NotShown
    /\ shownRespuesta' = NotShown
    /\ ocrCalls' = 0
    /\ inferCalls' = 0
    /\ UNCHANGED <<session_state, process, lastRequest, reply>>

UploadFile ==
    /\ \E f \in ImageBytes \cup {NoFile} :
          /\ f # uploaded_file
          /\ uploaded_file' = f
    /\ StartRun
    /\ clicked' = FALSE
    /\ UNCHANGED <<groq_api_key, buttonShown, invocations>>

EnterKey ==
    /\ \E k \in ApiKeys :
          /\ k # groq_api_key
          /\ groq_api_key' = k
    /\ StartRun
    /\ clicked' = FALSE
    /\ UNCHANGED <<uploaded_file, buttonShown, invocations>>

ClickProcesar ==
    /\ buttonShown
    /\ invocations < MaxInvocations
    /\ StartRun
    /\ clicked' = TRUE
    /\ invocations' = invocations + 1
    /\ UNCHANGED <<widgets, buttonShown>>

\* line 110
CheckUpload ==
    /\ pc = "upload"
    /\ buttonShown' = FALSE
    /\ pc' = IF uploaded_file = NoFile THEN "results" ELSE "decode"
    /\ UNCHANGED <<widgets, clicked, session_state, process, invocations, locals, page, doubles>>

\* lines 112-118
Decode ==
    /\ pc = "decode"
    /\ LET fault == DecodeFault(uploaded_file)
           next == AfterDecode(fault, clicked)
       IN /\ pc' = next
          /\ unhandled' = IF next = "end" THEN fault ELSE NoFault
          /\ image_bytes' = IF next = "end" THEN Unset ELSE uploaded_file
          /\ buttonShown' = (next # "end")
    /\ UNCHANGED <<widgets, clicked, session_state, process, invocations,
                   client, reader, texto_ocr, respuesta_ia,
                   messages, shownTexto, shownRespuesta, doubles>>

\* lines 119-123
CheckKey ==
    /\ pc = "key"
    /\ IF groq_api_key = <<>>
       THEN /\ messages' = Append(messages, W_NOKEY)
            /\ pc' = "results"
            /\ UNCHANGED client
       ELSE /\ client' = <<Groq(groq_api_key)>>
            /\ pc' = "load"
            /\ UNCHANGED messages
    /\ UNCHANGED <<widgets, clicked, buttonShown, session_state, process, invocations,
                   reader, image_bytes, texto_ocr, respuesta_ia,
                   unhandled, shownTexto, shownRespuesta, doubles>>

\* lines 18-25, 126: st.cache_resource returns the cached instance
LoadCached ==
    /\ pc = "load"
    /\ CacheHit(cache)
    /\ reader' = cache
    /\ loads' = loads + 1
    /\ pc' = "ocr"
    /\ UNCHANGED <<widgets, clicked, buttonShown, session_state, cache, ctorCalls, ctorFails,
                   invocations, client, image_bytes, texto_ocr, respuesta_ia, page, doubles>>

\* lines 18-25, 126: cache miss, easyocr.Reader(...) returns and is cached
LoadConstruct ==
    /\ pc = "load"
    /\ ~CacheHit(cache)
    /\ ctorCalls' = ctorCalls + 1
    /\ loads' = loads + 1
    /\ cache' = <<ReaderInstance>>
    /\ reader' = <<ReaderInstance>>
    /\ pc' = "ocr"
    /\ UNCHANGED <<widgets, clicked, buttonShown, session_state, ctorFails,
                   invocations, client, image_bytes, texto_ocr, respuesta_ia, page, doubles>>

\* lines 18-25, 126: cache miss, easyocr.Reader(...) raises; nothing is
\* cached and nothing in the script catches the exception
LoadConstructFails ==
    /\ pc = "load"
    /\ ~CacheHit(cache)
    /\ ctorCalls' = ctorCalls + 1
    /\ ctorFails' = ctorFails + 1
    /\ loads' = loads + 1
    /\ unhandled' = ReaderInitError
    /\ pc' = "end"
    /\ UNCHANGED <<widgets, clicked, buttonShown, session_state, cache,
                   invocations, locals, messages, shownTexto, shownRespuesta, doubles>>

\* lines 27-37, 130
ExtraerTexto ==
    /\ pc = "ocr"
    /\ ocrCalls' = ocrCalls + 1
    /\ \/ \E resultado \in EngineResults :
             /\ texto_ocr' = TextoExtraido(resultado)
             /\ UNCHANGED messages
       \/ /\ texto_ocr' = None
          /\ messages' = Append(messages, E_OCR)
    /\ pc' = "guard"
    /\ UNCHANGED <<widgets, clicked, buttonShown, session_state, process, invocations,
                   client, reader, image_bytes, respuesta_ia,
                   unhandled, shownTexto, shownRespuesta, inferCalls, lastRequest, reply>>

\* lines 132-133, 139-140
GuardTexto ==
    /\ pc = "guard"
    /\ IF Truthy(texto_ocr)
       THEN /\ session_state' = [session_state EXCEPT !.texto_ocr = texto_ocr]
            /\ pc' = "infer"
            /\ UNCHANGED messages
       ELSE /\ messages' = Append(messages, E_NOTEXT)
            /\ pc' = "results"
            /\ UNCHANGED session_state
    /\ UNCHANGED <<widgets, clicked, buttonShown, process, invocations, locals,
                   unhandled, shownTexto, shownRespuesta, doubles>>

\* lines 39-72, 137
ObtenerRespuestaGroq ==
    /\ pc = "infer"
    /\ IF ~Truthy(texto_ocr)
       THEN /\ respuesta_ia' = NoTextReply
            /\ pc' = "store"
            /\ UNCHANGED <<messages, doubles>>
       ELSE /\ inferCalls' = inferCalls + 1
            /\ lastRequest' = Request(texto_ocr)
            /\ \E outcome \in EndpointOutcomes(client[1].api_key) :
                  LET failed == outcome.status # "ok" \/ Len(outcome.choices) = 0
                  IN /\ reply' = outcome
                     /\ respuesta_ia' = IF failed THEN None ELSE FirstChoice(outcome.choices)
                     /\ messages' = IF failed THEN Append(messages, E_GROQ) ELSE messages
                     /\ pc' = AfterCompletion(failed)
            /\ UNCHANGED ocrCalls
    /\ UNCHANGED <<widgets, clicked, buttonShown, session_state, process, invocations,
                   client, reader, image_bytes, texto_ocr,
                   unhandled, shownTexto, shownRespuesta>>

\* line 138
GuardarRespuesta ==
    /\ pc = "store"
    /\ session_state' = StoreRespuesta(session_state, respuesta_ia)
    /\ pc' = "results"
    /\ UNCHANGED <<widgets, clicked, buttonShown, process, invocations, locals, page, doubles>>

\* lines 143-158
Results ==
    /\ pc = "results"
    /\ shownTexto' = IF session_state.texto_ocr # Absent /\ Truthy(session_state.texto_ocr)
                     THEN session_state.texto_ocr ELSE NotShown
    /\ shownRespuesta' = IF session_state.respuesta_ia # Absent /\ Truthy(session_state.respuesta_ia)
                         THEN session_state.respuesta_ia ELSE Placeholder
    /\ pc' = "end"
    /\ UNCHANGED <<widgets, clicked, buttonShown, session_state, process, invocations,
                   locals, messages, unhandled, doubles>>

\* The run is over (last statement executed, or aborted by an exception):
\* the script's namespace is dropped, the page stays as rendered.
Finish ==
    /\ pc = "end"
    /\ pc' = "idle"
    /\ client' = <<>>
    /\ reader' = <<>>
    /\ image_bytes' = Unset
    /\ UNCHANGED <<widgets, clicked, buttonShown, session_state, process, invocations,
                   texto_ocr, respuesta_ia, page, doubles>>

Next ==
    \/ UploadFile
    \/ EnterKey
    \/ ClickProcesar
    \/ CheckUpload
    \/ Decode
    \/ CheckKey
    \/ LoadCached
    \/ LoadConstruct
    \/ LoadConstructFails
    \/ ExtraerTexto
    \/ GuardTexto
    \/ ObtenerRespuestaGroq
    \/ GuardarRespuesta
    \/ Results
    \/ Finish

Spec == Init /\ [][Next]_vars

\* ---------------------------------------------------------------- properties
HasMessage(m) == \E i \in 1..Len(messages) : messages[i] = m
RunOver == pc \in {"end", "idle"}
PastGuard == pc \in {"results", "end", "idle"}
ObtainedText == texto_ocr \notin {Unset, None, <<>>}
ThisRunReplied == inferCalls = 1 /\ pc # "infer"
InferenceFailed == ThisRunReplied /\ (reply.status # "ok" \/ Len(reply.choices) = 0)

\* C1: a run whose uploaded bytes are not a well-formed image (the zero-byte
\* file included) stops in the decode stage with the image fault, and in that
\* run the OCR engine is never called and no inference request is issued.
C1_MalformedStopsAtDecode ==
    (uploaded_file # NoFile /\ ~WellFormedImage(uploaded_file)) =>
        /\ ocrCalls = 0
        /\ inferCalls = 0
        /\ pc \in {"idle", "upload", "decode", "end"}
        /\ RunOver => unhandled \in {UnidentifiedImageError, ImageLoadError}

C1_Witness ==
    /\ pc = "end"
    /\ uploaded_file = <<>>
    /\ unhandled = UnidentifiedImageError
    /\ ocrCalls = 0 /\ inferCalls = 0

\* C2: when extraction yields the empty string the run short-circuits: no
\* chat-completion request is issued and the run ends with the "no text"
\* message.
C2_EmptyTextShortCircuits ==
    texto_ocr = <<>> =>
        /\ inferCalls = 0
        /\ pc \in {"guard", "results", "end", "idle"}
        /\ PastGuard => messages = <<E_NOTEXT>>

C2_Witness ==
    /\ pc = "end"
    /\ texto_ocr = <<>>
    /\ ocrCalls = 1
    /\ inferCalls = 0

\* C3 (as claimed): no fault of any stage leaves the script as a raw,
\* unhandled fault.
C3_NoUnhandledFault == unhandled = NoFault

\* C4 (as claimed): the OCR engine constructor runs at most once in the
\* process.
C4_ConstructorAtMostOnce == ctorCalls <= 1

\* C4 (amended): the constructor completes successfully at most once; once an
\* instance is cached every later run reuses it and the constructor is not
\* run again; a construction that raises caches nothing; when no construction
\* has raised, the runs that reached the OCR stage made exactly one
\* constructor call between them.
C4_SuccessfulConstructionOnce ==
    /\ [](/\ ctorCalls - ctorFails <= 1
          /\ (cache # <<>>) <=> (ctorCalls = ctorFails + 1)
          /\ (ctorFails = 0 /\ loads >= 1) => ctorCalls = 1
          /\ reader # <<>> => reader = cache)
    /\ [][/\ cache # <<>> => (cache' = cache /\ ctorCalls' = ctorCalls)
          /\ ctorFails' # ctorFails => cache' = <<>>]_vars

C4_Witness ==
    /\ pc = "ocr"
    /\ loads = 2
    /\ ctorCalls = 1
    /\ ctorFails = 0
    /\ reader = <<ReaderInstance>>

\* C5 (as claimed): a run in which the OCR engine raised reports the OCR
\* stage and nothing else.
C5_OcrFaultReportedAlone ==
    (PastGuard /\ HasMessage(E_OCR)) => messages = <<E_OCR>>

\* C6: at most one chat-completion request is issued per run, and a request
\* that fails leaves the run without a response.
C6_SingleAttempt ==
    /\ inferCalls <= 1
    /\ InferenceFailed =>
          /\ respuesta_ia = None
          /\ PastGuard => session_state.respuesta_ia = None
          /\ RunOver => shownRespuesta = Placeholder

C6_Witness ==
    /\ pc = "end"
    /\ inferCalls = 1
    /\ reply.status = "AuthFailure"
    /\ session_state.respuesta_ia = None

C8_NoPartialResults ==
    (RunOver /\ ObtainedText /\ (InferenceFailed \/ unhandled # NoFault)) =>
        /\ session_state.texto_ocr # texto_ocr
        /\ shownTexto # texto_ocr

\* C9 (as claimed): whenever the script holds a client built from the
\* credential, the inference call of that run is in progress.
C9_CredentialOnlyDuringInference == client # <<>> => pc = "infer"

\* C10: between runs, a non-empty respuesta_ia in the session state is the
\* first choice of the reply to the last request, and that request carried
\* the texto_ocr now in the session state; a run that obtained non-empty text
\* leaves both fields holding its own text and its own result, and only such
\* a run changes the session state.
C10_SessionPairConsistent ==
    /\ []((pc \notin {"infer", "store"}
             /\ session_state.respuesta_ia \notin {Absent, None, <<>>}) =>
            /\ lastRequest = Request(session_state.texto_ocr)
            /\ reply.status = "ok"
            /\ Len(reply.choices) >= 1
            /\ reply.choices[1] = session_state.respuesta_ia)
    /\ []((PastGuard /\ ObtainedText) =>
            /\ session_state.texto_ocr = texto_ocr
            /\ session_state.respuesta_ia = respuesta_ia
            /\ InferenceFailed => respuesta_ia = None)
    /\ [][session_state' # session_state => ObtainedText]_vars

C10_Witness ==
    /\ pc = "end"
    /\ invocations = 2
    /\ texto_ocr = None
    /\ session_state.texto_ocr = <<"a">>
    /\ session_state.respuesta_ia = <<"r">>
    /\ shownRespuesta = <<"r">>

====
